---- MODULE Spec2Model ----
(***************************************************************************)
(* simple-rest-go (src/main.go): an HTTP server that forwards "/" to a     *)
(* backend, serves /version, /health/live, /health/ready and /metrics, and *)
(* counts every request a registered handler served in a Metrics           *)
(* aggregator guarded by one sync.RWMutex.                                 *)
(*                                                                         *)
(* Strings are sequences of runes; a rune is a one-element TLA+ string     *)
(* ("U+00E9" stands for one multi-byte rune).  Durations are integers in   *)
(* microseconds.  duration.Seconds() is a float64; the comparison          *)
(* Seconds(d) <= b of GetPrometheusMetrics is the comparison of the        *)
(* microsecond values, because the rounding of Seconds() is monotone and   *)
(* every bucket boundary is itself the Seconds() of a Duration.            *)
(***************************************************************************)
EXTENDS Integers, Sequences, FiniteSets, TLC

\* ------------------------------------------------------------ bounds
\* Concurrent request tasks (one goroutine per inbound request).
NumTasks == 2
\* Longest raw path given to the normalisation on its own.
MaxPathLen == 3
\* Longest duration sequence given to the histogram on its own.
MaxDurs == 2
\* Most WriteHeader calls made on one response capture wrapper.
MaxCalls == 2
\* Most RecordRequest calls made on the aggregator driven sequentially.
MaxRecords == 3

Tasks == 1..NumTasks

\* ------------------------------------------------------------ runes
Lower ==
    {"a","b","c","d","e","f","g","h","i","j","k","l","m",
     "n","o","p","q","r","s","t","u","v","w","x","y","z"}

Upper ==
    {"A","B","C","D","E","F","G","H","I","J","K","L","M",
     "N","O","P","Q","R","S","T","U","V","W","X","Y","Z"}

Digit == {"0","1","2","3","4","5","6","7","8","9"}

\* The predicate of the strings.Map callback (main.go:69).
IsKeyRune(r) == r \in Lower \cup Upper \cup Digit \cup {"/"}

\* The strings.Map callback (main.go:68-73).
MapRune(r) == IF IsKeyRune(r) THEN r ELSE "_"

\* strings.Map: the callback applied rune by rune.
StringsMap(s) == [i \in 1..Len(s) |-> MapRune(s[i])]

Root == <<"r","o","o","t">>

\* A variant that tests the first rune of the raw path, not of the key.
CleanPathRawTest(p) ==
    LET c == StringsMap(p)
    IN  IF p = <<>> \/ p[1] = "_" THEN Root \o c ELSE c

\* cleanPath of RecordRequest (main.go:68-77): the normalised path key.
CleanPath(p) ==
    LET c == StringsMap(p)
    IN  IF c = <<>> \/ c[1] = "_" THEN Root \o c ELSE c

\* ------------------------------------------------------------ maps
\* A Go map is a function on the set of its keys.
EmptyMap == [x \in {} |-> 0]

MapGet(m, k, dflt) == IF k \in DOMAIN m THEN m[k] ELSE dflt

MapPut(m, k, v) == [x \in (DOMAIN m) \cup {k} |-> IF x = k THEN v ELSE m[x]]

RECURSIVE SumOver(_, _)
\* The sum of f over the finite set S.
SumOver(f, S) ==
    IF S = {} THEN 0
    ELSE LET x == CHOOSE y \in S : TRUE
         IN  f[x] + SumOver(f, S \ {x})

\* ------------------------------------------------------------ histogram
\* buckets of GetPrometheusMetrics (main.go:131), in microseconds.
Buckets ==
    <<5000, 10000, 25000, 50000, 100000, 250000, 500000,
      1000000, 2500000, 5000000, 10000000>>

NB == Len(Buckets)

\* A variant with a strict comparison.
BucketHitStrict(d, b) == d < b

\* The test of main.go:142.
BucketHit(d, b) == d <= b

\* One pass of the loop body of main.go:138-147 over bucketCounts.
HistObserve(counts, d) ==
    [i \in 1..(NB + 1) |->
        IF i = NB + 1 THEN counts[i] + 1
        ELSE IF BucketHit(d, Buckets[i]) THEN counts[i] + 1 ELSE counts[i]]

RECURSIVE HistLoop(_, _, _)
\* The loop of main.go:138-147: bucketCounts and sum after all durations.
HistLoop(durs, counts, sum) ==
    IF durs = <<>> THEN [counts |-> counts, sum |-> sum]
    ELSE HistLoop(Tail(durs), HistObserve(counts, Head(durs)), sum + Head(durs))

\* What main.go:135-159 writes for one path: the bucket lines (the last one
\* is le="+Inf"), _sum and _count.
Histogram(durs) ==
    LET r == HistLoop(durs, [i \in 1..(NB + 1) |-> 0], 0)
    IN  [buckets |-> r.counts, sum |-> r.sum, count |-> Len(durs)]

\* ------------------------------------------------------------ routing
PathRoot == <<"/">>
PathVersion == <<"/","v","e","r","s","i","o","n">>
PathLive == <<"/","h","e","a","l","t","h","/","l","i","v","e">>
PathReady == <<"/","h","e","a","l","t","h","/","r","e","a","d","y">>
PathMetrics == <<"/","m","e","t","r","i","c","s">>

\* The patterns registered in main (main.go:322-326).
RoutePaths == {PathRoot, PathVersion, PathLive, PathReady, PathMetrics}

RECURSIVE SplitSlash(_)
\* The elements of a path between its slashes.
SplitSlash(p) ==
    IF p = <<>> THEN << <<>> >>
    ELSE LET r == SplitSlash(SubSeq(p, 1, Len(p) - 1))
             c == p[Len(p)]
         IN  IF c = "/" THEN Append(r, <<>>)
             ELSE [r EXCEPT ![Len(r)] = Append(@, c)]

RECURSIVE CleanSegs(_, _)
\* path.Clean on a rooted path: empty and "." elements are dropped, ".."
\* drops the element before it.
CleanSegs(segs, stack) ==
    IF segs = <<>> THEN stack
    ELSE LET s == Head(segs)
         IN  CleanSegs(Tail(segs),
                 IF s = <<>> \/ s = <<".">> THEN stack
                 ELSE IF s = <<".", ".">>
                      THEN SubSeq(stack, 1, Len(stack) - 1)
                      ELSE Append(stack, s))

RECURSIVE JoinSlash(_)
JoinSlash(stack) ==
    IF stack = <<>> THEN <<>>
    ELSE <<"/">> \o Head(stack) \o JoinSlash(Tail(stack))

\* net/http's cleanPath, which the ServeMux of main.go:319 applies to every
\* request path: the canonical path, a trailing slash kept.
MuxCleanPath(p) ==
    IF p = <<>> THEN <<"/">>
    ELSE LET q == IF p[1] # "/" THEN <<"/">> \o p ELSE p
             st == CleanSegs(SplitSlash(q), <<>>)
             np == IF st = <<>> THEN <<"/">> ELSE JoinSlash(st)
         IN  IF q[Len(q)] = "/" /\ np # <<"/">> THEN np \o <<"/">> ELSE np

\* The handler the ServeMux of main.go:319-326 selects.  A path that is not
\* in canonical form is answered by the mux's own redirect handler, which is
\* none of the registered (wrapped) handlers; "/" matches every path no
\* longer pattern matches.
MuxHandler(p) ==
    IF MuxCleanPath(p) # p THEN "RedirectHandler"
    ELSE IF p = PathVersion THEN "VersionHandler"
    ELSE IF p = PathLive THEN "LivenessHandler"
    ELSE IF p = PathReady THEN "ReadinessHandler"
    ELSE IF p = PathMetrics THEN "MetricsHandler"
    ELSE "ForwardToBackend"

\* ------------------------------------------------------------ statuses
StatusOK == 200
StatusMovedPermanently == 301
StatusNotFound == 404
StatusInternalServerError == 500
StatusServiceUnavailable == 503

\* Status codes a backend answers with (resp.StatusCode, main.go:249).
BackendStatuses == {200, 500}

\* Request durations time.Since returns (main.go:180), in microseconds.
Durations == {5000}

PathVersionSlash == PathVersion \o <<"/">>
PathUnknown == <<"/","u","n","k","n","o","w","n","/","p","a","t","h">>
PathDoubleSlash == <<"/">> \o PathVersion

\* r.URL.Path of the inbound requests.
RequestPaths ==
    RoutePaths \cup {PathVersionSlash, PathUnknown, PathDoubleSlash}

\* What the ServeMux of main.go:319 answers for each of these paths: the
\* handler it selects and the canonical path a redirect names.
MuxRoutes ==
    [p \in RequestPaths |-> [handler |-> MuxHandler(p), clean |-> MuxCleanPath(p)]]

\* ------------------------------------------------------------ state
VARIABLES
    pc,                 \* per request task: where its goroutine stands
    path,               \* per task: r.URL.Path
    handler,            \* per task: the handler the mux selected
    rwStatus,           \* per task: responseWriter.statusCode (0: no wrapper)
    wCalls,             \* per task: WriteHeader calls the wrapper forwarded
    wStatus,            \* per task: status the underlying writer sent (0: none)
    wBody,              \* per task: body written to the client
    fwd,                \* per task: ForwardToBackend's locals
    rec,                \* per task: arguments of its RecordRequest calls
    tmpCount,           \* per task: counter value read by a ++ statement
    tmpDurs,            \* per task: slice read by the append statement
    snap,               \* per task: what GetPrometheusMetrics has built
    rwW,                \* Metrics.mutex: the writer that took it (0: none)
    rwReaders,          \* Metrics.mutex: the tasks holding it shared
    totalRequests,      \* Metrics.totalRequests
    statusCodes,        \* Metrics.statusCodes
    requestDurations,   \* Metrics.requestDurations
    appStartTimestamp,  \* Metrics.appStartTimestamp
    lastCall,           \* sequential driver: the last aggregator call
    aggOut,             \* sequential driver: the last render
    inPath,             \* normalisation on its own: the raw path
    outKey,             \* normalisation on its own: CleanPath(inPath)
    outKey2,            \* normalisation on its own: CleanPath(outKey)
    inDurs,             \* histogram on its own: the durations
    outHist             \* histogram on its own: Histogram(inDurs)

taskVars == <<pc, path, handler, rwStatus, wCalls, wStatus, wBody, fwd, rec,
              tmpCount, tmpDurs, snap>>
lockVars == <<rwW, rwReaders>>
aggVars == <<totalRequests, statusCodes, requestDurations, appStartTimestamp>>
seqVars == <<lastCall, aggOut>>
pureVars == <<inPath, outKey, outKey2, inDurs, outHist>>
vars == <<taskVars, lockVars, aggVars, seqVars, pureVars>>

NoBody == [kind |-> "none", path |-> <<>>]
NoFwd == [outcome |-> "none", code |-> 0, sends |-> 0]
EmptySnap == [total |-> EmptyMap, status |-> EmptyMap, hist |-> EmptyMap]
NoCall == [op |-> "none", path |-> <<>>, code |-> 0, dur |-> 0]

\* No request has arrived.
TasksInit ==
    /\ pc = [t \in Tasks |-> "new"]
    /\ path = [t \in Tasks |-> <<>>]
    /\ handler = [t \in Tasks |-> "none"]
    /\ rwStatus = [t \in Tasks |-> 0]
    /\ wCalls = [t \in Tasks |-> <<>>]
    /\ wStatus = [t \in Tasks |-> 0]
    /\ wBody = [t \in Tasks |-> NoBody]
    /\ fwd = [t \in Tasks |-> NoFwd]
    /\ rec = [t \in Tasks |-> <<>>]
    /\ tmpCount = [t \in Tasks |-> 0]
    /\ tmpDurs = [t \in Tasks |-> <<>>]
    /\ snap = [t \in Tasks |-> EmptySnap]

\* NewMetrics (main.go:52-59) and the zero sync.RWMutex.
MetricsInit ==
    /\ rwW = 0
    /\ rwReaders = {}
    /\ totalRequests = EmptyMap
    /\ statusCodes = EmptyMap
    /\ requestDurations = EmptyMap
    /\ appStartTimestamp = 0

SeqIdle == lastCall = NoCall /\ aggOut = EmptySnap

PureIdle ==
    /\ inPath = <<>>
    /\ outKey = <<>>
    /\ outKey2 = <<>>
    /\ inDurs = <<>>
    /\ outHist = Histogram(<<>>)

\* ------------------------------------------------------------ response writer
\* responseWriter.WriteHeader's assignment (main.go:206): the new statusCode
\* after a call with `code`, `calls` being the calls made before it.
Captured(calls, old, code) == code

\* The underlying http.ResponseWriter's WriteHeader (called at main.go:207):
\* the first call sends the status line, a later one is superfluous.
UnderWriteHeader(ws, code) == IF ws = 0 THEN code ELSE ws

\* The underlying Write: an implicit 200 when no header was written.  The
\* wrapper embeds the writer, so Write does not pass through
\* responseWriter.WriteHeader.
UnderWrite(ws) == IF ws = 0 THEN StatusOK ELSE ws

\* rw.WriteHeader(code) by task t (main.go:205-208).
WriteHeader(t, code) ==
    /\ rwStatus' = [rwStatus EXCEPT ![t] = Captured(wCalls[t], @, code)]
    /\ wCalls' = [wCalls EXCEPT ![t] = Append(@, code)]
    /\ wStatus' = [wStatus EXCEPT ![t] = UnderWriteHeader(@, code)]

\* A body written with no explicit status (fmt.Fprintf(w, ...)).
WriteBody(t, kind) ==
    /\ wStatus' = [wStatus EXCEPT ![t] = UnderWrite(@)]
    /\ wBody' = [wBody EXCEPT ![t] = [kind |-> kind, path |-> <<>>]]
    /\ UNCHANGED <<rwStatus, wCalls>>

\* http.Error(w, text, code): WriteHeader(code), then the text.
HttpError(t, code, kind) ==
    /\ WriteHeader(t, code)
    /\ wBody' = [wBody EXCEPT ![t] = [kind |-> kind, path |-> <<>>]]

\* http.NotFound(w, r): the plain text "404 page not found".
HttpNotFound(t) == HttpError(t, StatusNotFound, "404 page not found")

\* The response of NotFoundHandler (main.go:308-312) for path p.  main
\* registers it for no pattern.
NotFoundHandlerBody(p) == [kind |-> "NotFoundJSON", path |-> p]

\* ------------------------------------------------------------ RWMutex
\* A variant that takes the lock whoever holds it.
CanLockAlways(t) == TRUE

\* m.mutex.Lock() (main.go:63) can take the writer mutex: no other writer
\* has it.
CanLock(t) == rwW = 0

\* A variant that lets readers in beside a writer.
CanRLockAlways(t) == TRUE

\* m.mutex.RLock() (main.go:94) can proceed: no writer holds or awaits the
\* lock (sync.RWMutex blocks new readers once a writer has called Lock).
CanRLock(t) == rwW = 0

\* A variant that never releases the shared lock.
RUnlockLeaked(t) == rwReaders

\* The readers left by the deferred m.mutex.RUnlock() (main.go:95).
RUnlock(t) == rwReaders \ {t}

\* ------------------------------------------------------------ aggregator
\* The read of m.totalRequests[cleanPath]++ (main.go:80).
LoadTotal(tr, k) == MapGet(tr, k, 0)

\* The write of m.totalRequests[cleanPath]++ (main.go:80).
StoreTotal(tr, k, v) == MapPut(tr, k, v + 1)

\* main.go:83-85: the inner map is made when absent.
EnsureStatus(sc, k) == IF k \in DOMAIN sc THEN sc ELSE MapPut(sc, k, EmptyMap)

\* The read of m.statusCodes[cleanPath][statusCode]++ (main.go:86).
LoadStatus(sc, k, code) == MapGet(MapGet(sc, k, EmptyMap), code, 0)

\* A variant that makes a fresh inner map for every observation.
StoreStatusFresh(sc, k, code, v) == MapPut(sc, k, MapPut(EmptyMap, code, v + 1))

\* The write of m.statusCodes[cleanPath][statusCode]++ (main.go:86).
StoreStatus(sc, k, code, v) ==
    MapPut(sc, k, MapPut(MapGet(sc, k, EmptyMap), code, v + 1))

\* The read of the append (main.go:89).
LoadDurs(rd, k) == MapGet(rd, k, <<>>)

\* The write of the append (main.go:89).
StoreDurs(rd, k, old, d) == MapPut(rd, k, Append(old, d))

\* The three loops of GetPrometheusMetrics (main.go:112-160) over one state
\* of the maps.
Render(tr, sc, rd) ==
    [total |-> tr, status |-> sc,
     hist |-> [k \in DOMAIN rd |-> Histogram(rd[k])]]

\* ------------------------------------------------------------ server
\* The mux dispatches request p to task t (main.go:322-326); a registered
\* handler runs inside AccessLogMiddleware, which builds the wrapper
\* (main.go:171-174).
Serve(t, p) ==
    /\ pc[t] = "new"
    /\ path' = [path EXCEPT ![t] = p]
    /\ handler' = [handler EXCEPT ![t] = MuxRoutes[p].handler]
    /\ IF MuxRoutes[p].handler = "RedirectHandler"
       THEN /\ wStatus' = [wStatus EXCEPT ![t] = StatusMovedPermanently]
            /\ wBody' = [wBody EXCEPT ![t] = [kind |-> "Redirect", path |-> MuxRoutes[p].clean]]
            /\ pc' = [pc EXCEPT ![t] = "done"]
            /\ UNCHANGED rwStatus
       ELSE /\ rwStatus' = [rwStatus EXCEPT ![t] = StatusOK]
            /\ pc' = [pc EXCEPT ![t] = "handler"]
            /\ UNCHANGED <<wStatus, wBody>>
    /\ UNCHANGED <<wCalls, fwd, rec, tmpCount, tmpDurs, snap>>
    /\ UNCHANGED <<lockVars, aggVars, seqVars, pureVars>>

\* A variant that answers a failed send with 500.
ForwardStatusSendAs500(outcome, code) ==
    IF outcome = "resp" THEN code ELSE StatusInternalServerError

\* The status ForwardToBackend writes for each outcome (main.go:221, 236,
\* 249).
ForwardStatus(outcome, code) ==
    IF outcome = "buildErr" THEN StatusInternalServerError
    ELSE IF outcome = "sendErr" THEN StatusServiceUnavailable
    ELSE code

\* ForwardToBackend up to http.NewRequest (main.go:211-223).
ForwardToBackend(t) ==
    /\ pc[t] = "handler"
    /\ handler[t] = "ForwardToBackend"
    /\ IF path[t] # PathRoot
       THEN /\ HttpNotFound(t)
            /\ pc' = [pc EXCEPT ![t] = "after"]
            /\ UNCHANGED fwd
       ELSE \E built \in BOOLEAN :
            IF built
            THEN /\ pc' = [pc EXCEPT ![t] = "do"]
                 /\ UNCHANGED <<rwStatus, wCalls, wStatus, wBody, fwd>>
            ELSE /\ HttpError(t, ForwardStatus("buildErr", 0), "Error creating request")
                 /\ fwd' = [fwd EXCEPT ![t].outcome = "buildErr"]
                 /\ pc' = [pc EXCEPT ![t] = "after"]
    /\ UNCHANGED <<path, handler, rec, tmpCount, tmpDurs, snap>>
    /\ UNCHANGED <<lockVars, aggVars, seqVars, pureVars>>

\* client.Do(req) and what follows it (main.go:233-249); r = 0 is an error.
ClientDo(t) ==
    /\ pc[t] = "do"
    /\ \E r \in {0} \cup BackendStatuses :
        IF r = 0
        THEN /\ HttpError(t, ForwardStatus("sendErr", 0), "Error forwarding to backend")
             /\ fwd' = [fwd EXCEPT ![t] = [outcome |-> "sendErr", code |-> 0, sends |-> @.sends + 1]]
             /\ pc' = [pc EXCEPT ![t] = "after"]
        ELSE /\ WriteHeader(t, ForwardStatus("resp", r))
             /\ fwd' = [fwd EXCEPT ![t] = [outcome |-> "resp", code |-> r, sends |-> @.sends + 1]]
             /\ pc' = [pc EXCEPT ![t] = "copy"]
             /\ UNCHANGED wBody
    /\ UNCHANGED <<path, handler, rec, tmpCount, tmpDurs, snap>>
    /\ UNCHANGED <<lockVars, aggVars, seqVars, pureVars>>

\* io.Copy(w, resp.Body) (main.go:252-255): an error is only logged.
CopyBody(t) ==
    /\ pc[t] = "copy"
    /\ \E ok \in BOOLEAN :
        /\ wBody' = [wBody EXCEPT ![t] =
              [kind |-> IF ok THEN "BackendBody" ELSE "BackendBodyCut", path |-> <<>>]]
        /\ fwd' = [fwd EXCEPT ![t].outcome = IF ok THEN "copied" ELSE "copyErr"]
    /\ wStatus' = [wStatus EXCEPT ![t] = UnderWrite(@)]
    /\ pc' = [pc EXCEPT ![t] = "after"]
    /\ UNCHANGED <<path, handler, rwStatus, wCalls, rec, tmpCount, tmpDurs, snap>>
    /\ UNCHANGED <<lockVars, aggVars, seqVars, pureVars>>

\* VersionHandler (main.go:259-268).
VersionHandler(t) ==
    /\ pc[t] = "handler"
    /\ handler[t] = "VersionHandler"
    /\ IF path[t] # PathVersion THEN HttpNotFound(t) ELSE WriteBody(t, "Version")
    /\ pc' = [pc EXCEPT ![t] = "after"]
    /\ UNCHANGED <<path, handler, fwd, rec, tmpCount, tmpDurs, snap>>
    /\ UNCHANGED <<lockVars, aggVars, seqVars, pureVars>>

\* LivenessHandler (main.go:271-280).
LivenessHandler(t) ==
    /\ pc[t] = "handler"
    /\ handler[t] = "LivenessHandler"
    /\ IF path[t] # PathLive THEN HttpNotFound(t) ELSE WriteBody(t, "LiveJSON")
    /\ pc' = [pc EXCEPT ![t] = "after"]
    /\ UNCHANGED <<path, handler, fwd, rec, tmpCount, tmpDurs, snap>>
    /\ UNCHANGED <<lockVars, aggVars, seqVars, pureVars>>

\* ReadinessHandler (main.go:283-293): an explicit WriteHeader(200).
ReadinessHandler(t) ==
    /\ pc[t] = "handler"
    /\ handler[t] = "ReadinessHandler"
    /\ IF path[t] # PathReady THEN HttpNotFound(t) ELSE HttpError(t, StatusOK, "ReadyJSON")
    /\ pc' = [pc EXCEPT ![t] = "after"]
    /\ UNCHANGED <<path, handler, fwd, rec, tmpCount, tmpDurs, snap>>
    /\ UNCHANGED <<lockVars, aggVars, seqVars, pureVars>>

\* MetricsHandler up to the RLock of GetPrometheusMetrics (main.go:296-301,
\* 93-94).
MetricsHandler(t) ==
    /\ pc[t] = "handler"
    /\ handler[t] = "MetricsHandler"
    /\ IF path[t] # PathMetrics
       THEN /\ HttpNotFound(t)
            /\ pc' = [pc EXCEPT ![t] = "after"]
            /\ UNCHANGED rwReaders
       ELSE /\ CanRLock(t)
            /\ rwReaders' = rwReaders \cup {t}
            /\ pc' = [pc EXCEPT ![t] = "renderTotals"]
            /\ UNCHANGED <<rwStatus, wCalls, wStatus, wBody>>
    /\ UNCHANGED <<path, handler, fwd, rec, tmpCount, tmpDurs, snap, rwW>>
    /\ UNCHANGED <<aggVars, seqVars, pureVars>>

\* The http_requests_total loop (main.go:112-114).
RenderTotals(t) ==
    /\ pc[t] = "renderTotals"
    /\ snap' = [snap EXCEPT ![t] = [EmptySnap EXCEPT !.total = Render(totalRequests, statusCodes, requestDurations).total]]
    /\ pc' = [pc EXCEPT ![t] = "renderStatus"]
    /\ UNCHANGED <<path, handler, rwStatus, wCalls, wStatus, wBody, fwd, rec, tmpCount, tmpDurs>>
    /\ UNCHANGED <<lockVars, aggVars, seqVars, pureVars>>

\* The http_response_status_total loop (main.go:120-124).
RenderStatus(t) ==
    /\ pc[t] = "renderStatus"
    /\ snap' = [snap EXCEPT ![t].status = Render(totalRequests, statusCodes, requestDurations).status]
    /\ pc' = [pc EXCEPT ![t] = "renderHist"]
    /\ UNCHANGED <<path, handler, rwStatus, wCalls, wStatus, wBody, fwd, rec, tmpCount, tmpDurs>>
    /\ UNCHANGED <<lockVars, aggVars, seqVars, pureVars>>

\* The histogram loop (main.go:133-160).
RenderHist(t) ==
    /\ pc[t] = "renderHist"
    /\ snap' = [snap EXCEPT ![t].hist = Render(totalRequests, statusCodes, requestDurations).hist]
    /\ pc' = [pc EXCEPT ![t] = "renderReturn"]
    /\ UNCHANGED <<path, handler, rwStatus, wCalls, wStatus, wBody, fwd, rec, tmpCount, tmpDurs>>
    /\ UNCHANGED <<lockVars, aggVars, seqVars, pureVars>>

\* GetPrometheusMetrics returns (the deferred RUnlock, main.go:95, 162) and
\* MetricsHandler writes the text (main.go:303-304).
RenderReturn(t) ==
    /\ pc[t] = "renderReturn"
    /\ rwReaders' = RUnlock(t)
    /\ WriteBody(t, "Metrics")
    /\ pc' = [pc EXCEPT ![t] = "after"]
    /\ UNCHANGED <<path, handler, fwd, rec, tmpCount, tmpDurs, snap, rwW>>
    /\ UNCHANGED <<aggVars, seqVars, pureVars>>

\* The handler has returned: AccessLogMiddleware takes the duration, logs,
\* and calls metrics.RecordRequest (main.go:180-194).
AccessLog(t, d) ==
    /\ pc[t] = "after"
    /\ rec' = [rec EXCEPT ![t] = Append(@, [path |-> path[t], code |-> rwStatus[t], dur |-> d])]
    /\ pc' = [pc EXCEPT ![t] = "lock"]
    /\ UNCHANGED <<path, handler, rwStatus, wCalls, wStatus, wBody, fwd, tmpCount, tmpDurs, snap>>
    /\ UNCHANGED <<lockVars, aggVars, seqVars, pureVars>>

\* The arguments of the RecordRequest call task t is in.
Arg(t) == rec[t][Len(rec[t])]

Key(t) == CleanPath(Arg(t).path)

\* m.mutex.Lock() (main.go:63): the writer mutex is taken, which keeps new
\* readers out.
Lock(t) ==
    /\ pc[t] = "lock"
    /\ CanLock(t)
    /\ rwW' = t
    /\ pc' = [pc EXCEPT ![t] = "lockWait"]
    /\ UNCHANGED <<path, handler, rwStatus, wCalls, wStatus, wBody, fwd, rec, tmpCount, tmpDurs, snap>>
    /\ UNCHANGED <<rwReaders, aggVars, seqVars, pureVars>>

\* m.mutex.Lock() returns once the readers that held the lock have left.
LockWait(t) ==
    /\ pc[t] = "lockWait"
    /\ rwReaders = {}
    /\ pc' = [pc EXCEPT ![t] = "loadTotal"]
    /\ UNCHANGED <<path, handler, rwStatus, wCalls, wStatus, wBody, fwd, rec, tmpCount, tmpDurs, snap>>
    /\ UNCHANGED <<lockVars, aggVars, seqVars, pureVars>>

\* main.go:80, the read.
RecLoadTotal(t) ==
    /\ pc[t] = "loadTotal"
    /\ tmpCount' = [tmpCount EXCEPT ![t] = LoadTotal(totalRequests, Key(t))]
    /\ pc' = [pc EXCEPT ![t] = "storeTotal"]
    /\ UNCHANGED <<path, handler, rwStatus, wCalls, wStatus, wBody, fwd, rec, tmpDurs, snap>>
    /\ UNCHANGED <<lockVars, aggVars, seqVars, pureVars>>

\* main.go:80, the write.
RecStoreTotal(t) ==
    /\ pc[t] = "storeTotal"
    /\ totalRequests' = StoreTotal(totalRequests, Key(t), tmpCount[t])
    /\ pc' = [pc EXCEPT ![t] = "loadStatus"]
    /\ UNCHANGED <<path, handler, rwStatus, wCalls, wStatus, wBody, fwd, rec, tmpCount, tmpDurs, snap>>
    /\ UNCHANGED <<lockVars, statusCodes, requestDurations, appStartTimestamp, seqVars, pureVars>>

\* main.go:83-86, the inner map made when absent and the read.
RecLoadStatus(t) ==
    /\ pc[t] = "loadStatus"
    /\ statusCodes' = EnsureStatus(statusCodes, Key(t))
    /\ tmpCount' = [tmpCount EXCEPT ![t] = LoadStatus(statusCodes, Key(t), Arg(t).code)]
    /\ pc' = [pc EXCEPT ![t] = "storeStatus"]
    /\ UNCHANGED <<path, handler, rwStatus, wCalls, wStatus, wBody, fwd, rec, tmpDurs, snap>>
    /\ UNCHANGED <<lockVars, totalRequests, requestDurations, appStartTimestamp, seqVars, pureVars>>

\* main.go:86, the write.
RecStoreStatus(t) ==
    /\ pc[t] = "storeStatus"
    /\ statusCodes' = StoreStatus(statusCodes, Key(t), Arg(t).code, tmpCount[t])
    /\ pc' = [pc EXCEPT ![t] = "loadDurs"]
    /\ UNCHANGED <<path, handler, rwStatus, wCalls, wStatus, wBody, fwd, rec, tmpCount, tmpDurs, snap>>
    /\ UNCHANGED <<lockVars, totalRequests, requestDurations, appStartTimestamp, seqVars, pureVars>>

\* main.go:89, the read of the slice.
RecLoadDurs(t) ==
    /\ pc[t] = "loadDurs"
    /\ tmpDurs' = [tmpDurs EXCEPT ![t] = LoadDurs(requestDurations, Key(t))]
    /\ pc' = [pc EXCEPT ![t] = "storeDurs"]
    /\ UNCHANGED <<path, handler, rwStatus, wCalls, wStatus, wBody, fwd, rec, tmpCount, snap>>
    /\ UNCHANGED <<lockVars, aggVars, seqVars, pureVars>>

\* main.go:89, the write of the appended slice.
RecStoreDurs(t) ==
    /\ pc[t] = "storeDurs"
    /\ requestDurations' = StoreDurs(requestDurations, Key(t), tmpDurs[t], Arg(t).dur)
    /\ pc' = [pc EXCEPT ![t] = "unlock"]
    /\ UNCHANGED <<path, handler, rwStatus, wCalls, wStatus, wBody, fwd, rec, tmpCount, tmpDurs, snap>>
    /\ UNCHANGED <<lockVars, totalRequests, statusCodes, appStartTimestamp, seqVars, pureVars>>

\* The deferred m.mutex.Unlock() (main.go:64): RecordRequest returns.
Unlock(t) ==
    /\ pc[t] = "unlock"
    /\ rwW' = 0
    /\ pc' = [pc EXCEPT ![t] = "done"]
    /\ UNCHANGED <<path, handler, rwStatus, wCalls, wStatus, wBody, fwd, rec, tmpCount, tmpDurs, snap>>
    /\ UNCHANGED <<rwReaders, aggVars, seqVars, pureVars>>

\* One step of request task t.
TaskNext(t) ==
    \/ \E p \in RequestPaths : Serve(t, p)
    \/ ForwardToBackend(t)
    \/ ClientDo(t)
    \/ CopyBody(t)
    \/ VersionHandler(t)
    \/ LivenessHandler(t)
    \/ ReadinessHandler(t)
    \/ MetricsHandler(t)
    \/ RenderTotals(t)
    \/ RenderStatus(t)
    \/ RenderHist(t)
    \/ RenderReturn(t)
    \/ \E d \in Durations : AccessLog(t, d)
    \/ Lock(t)
    \/ LockWait(t)
    \/ RecLoadTotal(t)
    \/ RecStoreTotal(t)
    \/ RecLoadStatus(t)
    \/ RecStoreStatus(t)
    \/ RecLoadDurs(t)
    \/ RecStoreDurs(t)
    \/ Unlock(t)

Init == TasksInit /\ MetricsInit /\ SeqIdle /\ PureIdle

Next == \E t \in Tasks : TaskNext(t)

Spec == Init /\ [][Next]_vars

\* ------------------------------------------------------------ the lock under fairness
\* Requests that render and record (/metrics) and requests that only record.
LockPaths == {PathMetrics, PathVersion}

\* One step of a request task for one of these paths.
LockTaskNext(t) ==
    \/ \E p \in LockPaths : Serve(t, p)
    \/ VersionHandler(t)
    \/ MetricsHandler(t)
    \/ RenderTotals(t)
    \/ RenderStatus(t)
    \/ RenderHist(t)
    \/ RenderReturn(t)
    \/ \E d \in Durations : AccessLog(t, d)
    \/ Lock(t)
    \/ LockWait(t)
    \/ RecLoadTotal(t)
    \/ RecStoreTotal(t)
    \/ RecLoadStatus(t)
    \/ RecStoreStatus(t)
    \/ RecLoadDurs(t)
    \/ RecStoreDurs(t)
    \/ Unlock(t)

LockNext == \E t \in Tasks : LockTaskNext(t)

\* The Go scheduler runs every goroutine that can take a step.
FairLockSpec ==
    Init /\ [][LockNext]_vars /\ \A t \in Tasks : WF_vars(LockTaskNext(t))

\* ------------------------------------------------------------ the wrapper alone
\* Codes a handler may pass to WriteHeader.
WriterCodes == {200, 404, 500}

\* Every task holds a fresh wrapper (main.go:171-174).
WriterInit ==
    /\ pc = [t \in Tasks |-> "handler"]
    /\ path = [t \in Tasks |-> <<>>]
    /\ handler = [t \in Tasks |-> "none"]
    /\ rwStatus = [t \in Tasks |-> StatusOK]
    /\ wCalls = [t \in Tasks |-> <<>>]
    /\ wStatus = [t \in Tasks |-> 0]
    /\ wBody = [t \in Tasks |-> NoBody]
    /\ fwd = [t \in Tasks |-> NoFwd]
    /\ rec = [t \in Tasks |-> <<>>]
    /\ tmpCount = [t \in Tasks |-> 0]
    /\ tmpDurs = [t \in Tasks |-> <<>>]
    /\ snap = [t \in Tasks |-> EmptySnap]

\* Any handler's call rw.WriteHeader(code) (main.go:205-208).
WriteHeaderCall(t, code) ==
    /\ Len(wCalls[t]) < MaxCalls
    /\ WriteHeader(t, code)
    /\ UNCHANGED <<pc, path, handler, wBody, fwd, rec, tmpCount, tmpDurs, snap>>
    /\ UNCHANGED <<lockVars, aggVars, seqVars, pureVars>>

WriterNext == \E t \in Tasks, code \in WriterCodes : WriteHeaderCall(t, code)

InitWriter == WriterInit /\ MetricsInit /\ SeqIdle /\ PureIdle

SpecWriter == InitWriter /\ [][WriterNext]_vars

\* ------------------------------------------------------------ the aggregator alone
AggPaths == {<<"/","a","-","b">>, <<"/","a","_","b">>, <<"?">>}
AggCodes == {200, 404}
AggDurations == {5000, 5001}

\* RecordRequest(p, c, d) with no other call running (main.go:62-90).
AggRecord(p, c, d) ==
    /\ LET k == CleanPath(p)
           sc == EnsureStatus(statusCodes, k)
       IN  /\ SumOver([x \in DOMAIN requestDurations |-> Len(requestDurations[x])],
                      DOMAIN requestDurations) < MaxRecords
           /\ totalRequests' = StoreTotal(totalRequests, k, LoadTotal(totalRequests, k))
           /\ statusCodes' = StoreStatus(sc, k, c, LoadStatus(sc, k, c))
           /\ requestDurations' =
                  StoreDurs(requestDurations, k, LoadDurs(requestDurations, k), d)
    /\ lastCall' = [op |-> "record", path |-> p, code |-> c, dur |-> d]
    /\ UNCHANGED <<appStartTimestamp, aggOut, taskVars, lockVars, pureVars>>

\* GetPrometheusMetrics() with no other call running (main.go:93-163).
AggRender ==
    /\ aggOut' = Render(totalRequests, statusCodes, requestDurations)
    /\ lastCall' = [NoCall EXCEPT !.op = "render"]
    /\ UNCHANGED <<aggVars, taskVars, lockVars, pureVars>>

AggNext ==
    \/ \E p \in AggPaths, c \in AggCodes, d \in AggDurations : AggRecord(p, c, d)
    \/ AggRender

SpecAgg == Init /\ [][AggNext]_vars

\* ------------------------------------------------------------ normalisation alone
Alphabet == {"a", "Z", "0", "/", "_", "-", "?", "U+00E9"}

NormInputs == UNION {[1..n -> Alphabet] : n \in 0..MaxPathLen}

NormInit ==
    /\ inPath \in NormInputs
    /\ outKey = <<>>
    /\ outKey2 = <<>>
    /\ inDurs = <<>>
    /\ outHist = Histogram(<<>>)

\* The key of a raw path (main.go:68-77); a key is never empty.
Normalize ==
    /\ outKey = <<>>
    /\ outKey' = CleanPath(inPath)
    /\ UNCHANGED <<inPath, outKey2, inDurs, outHist, taskVars, lockVars, aggVars, seqVars>>

\* The key of that key.
Renormalize ==
    /\ outKey # <<>>
    /\ outKey2 = <<>>
    /\ outKey2' = CleanPath(outKey)
    /\ UNCHANGED <<inPath, outKey, inDurs, outHist, taskVars, lockVars, aggVars, seqVars>>

NormNext == Normalize \/ Renormalize

InitNorm == TasksInit /\ MetricsInit /\ SeqIdle /\ NormInit

SpecNorm == InitNorm /\ [][NormNext]_vars

\* ------------------------------------------------------------ histogram alone
\* Every bucket boundary, the microsecond after it, and zero.
HistDurations ==
    {0} \cup {Buckets[i] : i \in 1..NB} \cup {Buckets[i] + 1 : i \in 1..NB}

HistInputs == UNION {[1..n -> HistDurations] : n \in 0..MaxDurs}

NoHist == [buckets |-> <<>>, sum |-> 0, count |-> 0 - 1]

HistInit ==
    /\ inDurs \in HistInputs
    /\ outHist = NoHist
    /\ inPath = <<>>
    /\ outKey = <<>>
    /\ outKey2 = <<>>

\* The histogram block of one path (main.go:133-160).
Observe ==
    /\ outHist = NoHist
    /\ outHist' = Histogram(inDurs)
    /\ UNCHANGED <<inPath, outKey, outKey2, inDurs, taskVars, lockVars, aggVars, seqVars>>

HistNext == Observe

InitHist == TasksInit /\ MetricsInit /\ SeqIdle /\ HistInit

SpecHist == InitHist /\ [][HistNext]_vars

\* ------------------------------------------------------------ claims
\* Task t has received its complete response.
Responded(t) ==
    pc[t] \in {"after", "lock", "lockWait", "loadTotal", "storeTotal", "loadStatus",
               "storeStatus", "loadDurs", "storeDurs", "unlock", "done"}

\* Task t has called RecordRequest and the call has not returned.
InRecord(t) ==
    pc[t] \in {"lock", "lockWait", "loadTotal", "storeTotal", "loadStatus",
               "storeStatus", "loadDurs", "storeDurs", "unlock"}

\* Task t is between the return of Lock() and Unlock().
HoldsWriteLock(t) ==
    pc[t] \in {"loadTotal", "storeTotal", "loadStatus", "storeStatus", "loadDurs",
               "storeDurs", "unlock"}

\* The key of each request path.
RequestKey == [p \in RequestPaths |-> CleanPath(p)]

\* The tasks whose middleware has called RecordRequest with raw path p.
Calls(p) == {t \in Tasks : rec[t] # <<>> /\ rec[t][1].path = p}

\* C1: whenever every RecordRequest call issued on a raw path has returned,
\* the total-requests counter of the path's key and the number of durations
\* stored for it both equal the number of those calls: no interleaving of
\* the concurrent calls loses an update.
C1_NoLostUpdate ==
    \A p \in RequestPaths :
        (\A t \in Calls(p) : pc[t] = "done") =>
            /\ MapGet(totalRequests, RequestKey[p], 0) = Cardinality(Calls(p))
            /\ Len(MapGet(requestDurations, RequestKey[p], <<>>)) = Cardinality(Calls(p))

\* C1 witness: every task recorded the same raw path and all calls returned.
C1_Witness ==
    /\ \A t \in Tasks : pc[t] = "done" /\ rec[t] # <<>> /\ path[t] = PathVersion
    /\ MapGet(totalRequests, CleanPath(PathVersion), 0) = NumTasks

\* The three maps hold the same keys and the same number of observations
\* per key.
MapsAgree(tr, sc, rd) ==
    /\ DOMAIN tr = DOMAIN sc
    /\ DOMAIN tr = DOMAIN rd
    /\ \A k \in DOMAIN tr :
        /\ tr[k] = SumOver(sc[k], DOMAIN sc[k])
        /\ tr[k] = Len(rd[k])

\* A finished render agrees with itself.
SnapAgrees(s) ==
    /\ DOMAIN s.total = DOMAIN s.status
    /\ DOMAIN s.total = DOMAIN s.hist
    /\ \A k \in DOMAIN s.total :
        /\ s.total[k] = SumOver(s.status[k], DOMAIN s.status[k])
        /\ s.total[k] = s.hist[k].count

\* C7: whenever no task holds the write lock, and whenever a task holds the
\* read lock, the three maps have the same keys and per key the total, the
\* sum of the status-code counters and the number of durations are equal;
\* every render that has gone through its three loops shows the same
\* agreement.
C7_MapsAgree ==
    /\ (\A t \in Tasks : ~HoldsWriteLock(t)) =>
           MapsAgree(totalRequests, statusCodes, requestDurations)
    /\ rwReaders # {} => MapsAgree(totalRequests, statusCodes, requestDurations)
    /\ \A t \in Tasks : pc[t] \notin {"renderStatus", "renderHist"} => SnapAgrees(snap[t])

\* C7 witness: a render that ran after another task's RecordRequest returned
\* shows that observation.
C7_Witness ==
    \E t, u \in Tasks :
        /\ pc[u] = "done" /\ rec[u] # <<>>
        /\ pc[t] = "renderReturn"
        /\ snap[t].total # EmptyMap
        /\ snap[t].hist[Key(u)].count = 1

\* C6: a request for "/" sends to the backend at most once, and its status is
\* 500 when the outbound request could not be built (nothing was sent), 503
\* when the one send failed, and the backend's status otherwise, also after
\* the body copy failed.
C6_ForwardOnce ==
    \A t \in Tasks :
        (handler[t] = "ForwardToBackend" /\ path[t] = PathRoot) =>
            /\ fwd[t].sends <= 1
            /\ pc[t] = "do" => fwd[t].sends = 0
            /\ fwd[t].outcome = "none" => wStatus[t] = 0
            /\ fwd[t].outcome = "buildErr" =>
                   fwd[t].sends = 0 /\ wStatus[t] = 500 /\ rwStatus[t] = 500
            /\ fwd[t].outcome = "sendErr" =>
                   fwd[t].sends = 1 /\ wStatus[t] = 503 /\ rwStatus[t] = 503
            /\ fwd[t].outcome \in {"resp", "copied", "copyErr"} =>
                   /\ fwd[t].sends = 1
                   /\ wStatus[t] = fwd[t].code
                   /\ rwStatus[t] = fwd[t].code

\* C6 witness: one request whose send failed and one whose body copy failed
\* after a backend 500, both finished.
C6_Witness ==
    \E t, u \in Tasks :
        /\ pc[t] = "done" /\ fwd[t].outcome = "sendErr"
        /\ pc[u] = "done" /\ fwd[u].outcome = "copyErr" /\ fwd[u].code = 500

\* C2: a request whose path is none of the five routes is answered 404 with
\* the JSON body of NotFoundHandler carrying the request path (stated here
\* for the requests a registered handler served, which the claim includes).
C2_NotFoundJSON ==
    \A t \in Tasks :
        (Responded(t) /\ handler[t] # "RedirectHandler" /\ path[t] \notin RoutePaths) =>
            /\ wStatus[t] = StatusNotFound
            /\ wBody[t] = NotFoundHandlerBody(path[t])

\* C8: every request, whatever its path, had one registered handler invoked
\* for it and then one RecordRequest call with its raw path and captured
\* status, so that once it is finished it is counted under its own key.
C8_EveryRequestRecorded ==
    \A t \in Tasks :
        pc[t] = "done" =>
            /\ handler[t] \in {"ForwardToBackend", "VersionHandler", "LivenessHandler",
                               "ReadinessHandler", "MetricsHandler"}
            /\ Len(rec[t]) = 1
            /\ rec[t][1].path = path[t]
            /\ rec[t][1].code = rwStatus[t]
            /\ CleanPath(path[t]) \in DOMAIN totalRequests

\* C9: the captured status is 200 while WriteHeader has not been called and
\* afterwards the code of the first call, whatever calls follow; it is the
\* status the underlying writer sent to the client.
C9_FirstCallWins ==
    \A t \in Tasks :
        /\ rwStatus[t] = IF wCalls[t] = <<>> THEN StatusOK ELSE wCalls[t][1]
        /\ wStatus[t] # 0 => rwStatus[t] = wStatus[t]

\* The effect of the record step that has just been taken.
C3_Step ==
    lastCall'.op = "record" =>
        LET k == CleanPath(lastCall'.path)
            c == lastCall'.code
            d == lastCall'.dur
            codes == MapGet(statusCodes, k, EmptyMap)
            before == Render(totalRequests, statusCodes, requestDurations)
            after == Render(totalRequests', statusCodes', requestDurations')
            hist0 == MapGet(before.hist, k, Histogram(<<>>))
        IN  /\ DOMAIN totalRequests' = DOMAIN totalRequests \cup {k}
            /\ totalRequests'[k] = MapGet(totalRequests, k, 0) + 1
            /\ \A j \in DOMAIN totalRequests \ {k} : totalRequests'[j] = totalRequests[j]
            /\ DOMAIN statusCodes' = DOMAIN statusCodes \cup {k}
            /\ DOMAIN statusCodes'[k] = DOMAIN codes \cup {c}
            /\ statusCodes'[k][c] = MapGet(codes, c, 0) + 1
            /\ \A e \in DOMAIN codes \ {c} : statusCodes'[k][e] = codes[e]
            /\ \A j \in DOMAIN statusCodes \ {k} : statusCodes'[j] = statusCodes[j]
            /\ DOMAIN requestDurations' = DOMAIN requestDurations \cup {k}
            /\ requestDurations'[k] = Append(MapGet(requestDurations, k, <<>>), d)
            /\ \A j \in DOMAIN requestDurations \ {k} :
                   requestDurations'[j] = requestDurations[j]
            /\ appStartTimestamp' = appStartTimestamp
            /\ after.total[k] = MapGet(before.total, k, 0) + 1
            /\ after.status[k][c] = MapGet(MapGet(before.status, k, EmptyMap), c, 0) + 1
            /\ after.hist[k].count = hist0.count + 1
            /\ after.hist[k].sum = hist0.sum + d
            /\ \A j \in DOMAIN before.hist \ {k} : after.hist[j] = before.hist[j]

\* No counter decreases in the step that has just been taken.
C3_Monotone ==
    \A k \in DOMAIN totalRequests :
        /\ k \in DOMAIN totalRequests'
        /\ totalRequests'[k] >= totalRequests[k]
        /\ \A e \in DOMAIN statusCodes[k] : statusCodes'[k][e] >= statusCodes[k][e]
        /\ Len(requestDurations'[k]) >= Len(requestDurations[k])

\* C3: one RecordRequest(path, code, d) adds 1 to the total of path's key and
\* to that key's counter of code, appends d to the key's durations and
\* changes nothing else, so the render after it shows one more observation
\* for the key (total, status counter, histogram count and sum) than the
\* render before it; no operation decreases a counter.
C3_Frame == [][C3_Step /\ C3_Monotone]_vars

\* C3 witness: a third record on one key that already had another status
\* code and a colliding raw path, with a render taken before it.
C3_Witness ==
    /\ lastCall.op = "record"
    /\ aggOut # EmptySnap
    /\ \E k \in DOMAIN totalRequests :
        /\ totalRequests[k] = 3
        /\ Cardinality(DOMAIN statusCodes[k]) = 2
        /\ requestDurations[k][1] # requestDurations[k][3]

\* C4: each finite bucket counts the durations at or below its boundary, the
\* bucket counts do not decrease along the boundaries, and the +Inf bucket
\* and _count both equal the number of durations.
C4_Cumulative ==
    outHist # NoHist =>
        /\ \A i \in 1..NB :
               outHist.buckets[i] =
                   Cardinality({j \in 1..Len(inDurs) : inDurs[j] <= Buckets[i]})
        /\ \A i \in 1..NB : outHist.buckets[i] <= outHist.buckets[i + 1]
        /\ outHist.buckets[NB + 1] = outHist.count
        /\ outHist.count = Len(inDurs)

\* C4 witness: a duration equal to the first boundary and one just above the
\* last boundary have been rendered.
C4_Witness ==
    /\ outHist # NoHist
    /\ Len(inDurs) = 2
    /\ inDurs[1] = Buckets[1]
    /\ inDurs[2] = Buckets[NB] + 1
    /\ outHist.buckets[1] = 1
    /\ outHist.buckets[NB] = 1
    /\ outHist.buckets[NB + 1] = 2

\* C5: the key of a key is that key; a key holds only letters, digits, '/'
\* and '_', is not empty and does not begin with '_'; the empty path has the
\* key "root".
C5_Idempotent ==
    /\ outKey2 # <<>> => outKey2 = outKey
    /\ outKey # <<>> =>
        /\ \A i \in 1..Len(outKey) : IsKeyRune(outKey[i]) \/ outKey[i] = "_"
        /\ outKey[1] # "_"
        /\ inPath = <<>> => outKey = Root

\* C5 witness: a path that received the "root" prefix has been normalised
\* twice.
C5_Witness ==
    /\ inPath = <<"?", "a", "U+00E9">>
    /\ outKey = Root \o <<"_", "a", "_">>
    /\ outKey2 # <<>>

\* Task t stands before the RLock of GetPrometheusMetrics.
WantsRLock(t) ==
    pc[t] = "handler" /\ handler[t] = "MetricsHandler" /\ path[t] = PathMetrics

\* No task asks for the exclusive lock while it holds the shared one.
NoUpgrade == \A t \in Tasks : InRecord(t) => t \notin rwReaders

\* Some task can take a step unless all are finished.
NoDeadlock == (\E t \in Tasks : pc[t] # "done") => ENABLED LockNext

\* C10: under fair scheduling every RecordRequest call returns, every task
\* that asks for the shared lock gets it and every holder releases it; no
\* reachable state is a deadlock; no task asks for the exclusive lock while
\* holding the shared lock.
C10_NoBlocking ==
    /\ \A t \in Tasks : (pc[t] = "lock") ~> (pc[t] = "done")
    /\ \A t \in Tasks : WantsRLock(t) ~> (t \in rwReaders)
    /\ \A t \in Tasks : (t \in rwReaders) ~> (t \notin rwReaders)
    /\ [](NoUpgrade /\ NoDeadlock)

\* C10 witness: a writer waits for a reader to leave while the reader is
\* still rendering.
C10_Witness ==
    \E t, u \in Tasks :
        /\ pc[t] = "lockWait"
        /\ u \in rwReaders
        /\ pc[u] = "renderStatus"

====
